---------------------------- MODULE Spec2Model ----------------------------
(***************************************************************************)
(* Dallinger: the experiment lifecycle (dallinger/experiment.py) and the   *)
(* clock process that reconciles the participant table with Mechanical     *)
(* Turk (dallinger/heroku/clock.py).                                       *)
(*                                                                         *)
(* The database tables are the state: networks, nodes and participants.    *)
(* A row's id is its index in the sequence (ids are handed out in          *)
(* insertion order).  `calls` holds the requests to external services      *)
(* (Heroku, Mechanical Turk, the recruiter, the /notifications route)      *)
(* issued by the handler that ran last, in the order they were issued.     *)
(***************************************************************************)
EXTENDS Integers, Sequences, FiniteSets

VARIABLES
    practice_repeats,    \* Experiment.practice_repeats
    experiment_repeats,  \* Experiment.experiment_repeats
    networks,            \* Network table: [role, full]
    nodes,               \* Node table: [participant_id, network_id, failed]
    participants,        \* Participant table
    now,                 \* datetime.now(), in seconds
    clock_pc,            \* where the clock process is in check_database
    calls,               \* external requests of the last handler
    closes,              \* close_recruitment requests the recruiter received
    jobs,                \* running instances of the job check_database
    admissions,          \* admission requests between their two calls
    run                  \* Experiment.run: the state of _finish_experiment

\* The state of the processes that are followed call by call.
finer == <<jobs, admissions, run>>

vars == <<practice_repeats, experiment_repeats, networks, nodes,
          participants, now, clock_pc, calls, closes, finer>>

-----------------------------------------------------------------------------
(* Bounds of the model.                                                    *)

MaxNetworks == 2
MaxParticipants == 2
MaxTicks == 2
MaxThreshold == 2
MaxJobs == 2
MaxRequests == 2

-----------------------------------------------------------------------------
(* Configuration and constants.                                            *)

\* Network.max_size: the number of nodes a network holds before it is full.
max_size == 2

\* config.get('HIT Configuration', 'duration'), in hours.
duration_hours == 1

\* duration = float(config.get(...)) * 60 * 60
duration == duration_hours * 60 * 60

\* the two minutes of grace in `p_time > (duration + 120)`
grace == 120

\* The values of config.get('Clock Parameters', 'bad_data_threshold').
Thresholds == 1 .. MaxThreshold

\* The clock of the model advances in steps of the overdue bound, so that an
\* elapsed time can be below, equal to and above duration + 120.
TickSeconds == duration + grace

None == 0
NoTime == -1

Statuses == {"working", "submitted", "approved", "rejected",
             "abandoned", "returned", "bad_data"}

\* The first participant of an assignment names it.
AssignmentIds == 1 .. MaxParticipants

\* A Mechanical Turk assignment belongs to one HIT.
HitOf(assignment_id) == assignment_id

-----------------------------------------------------------------------------
(* Helpers over sequences.                                                 *)

RECURSIVE Filter(_, _, _)
\* The elements of s at the indices keep accepts, in order, from index i on.
Filter(s, keep, i) ==
    IF i > Len(s) THEN <<>>
    ELSE IF i \in keep THEN <<s[i]>> \o Filter(s, keep, i + 1)
    ELSE Filter(s, keep, i + 1)

RECURSIVE IdsFrom(_, _)
\* The ids of `keep`, ascending, from id i on (ORDER BY id).
IdsFrom(keep, i) ==
    IF keep = {} THEN <<>>
    ELSE IF i \in keep THEN <<i>> \o IdsFrom(keep \ {i}, i + 1)
    ELSE IdsFrom(keep, i + 1)

-----------------------------------------------------------------------------
(* Experiment: networks.                                                   *)

\* Experiment.create_network() with the role setup assigns.
create_network(role) == [role |-> role, full |-> FALSE]

RECURSIVE Repeat(_, _)
Repeat(x, n) == IF n = 0 THEN <<>> ELSE <<x>> \o Repeat(x, n - 1)

\* Experiment.networks(role, full): ids of the matching networks.
networks_query(role, full) ==
    {i \in DOMAIN networks :
        /\ (role = "all" \/ networks[i].role = role)
        /\ (full = "all" \/ networks[i].full = (full = "true"))}

\* Mutant: the networks are created whether or not there are any.
setup_unconditional ==
    /\ networks' = networks
                    \o Repeat(create_network("practice"), practice_repeats)
                    \o Repeat(create_network("experiment"), experiment_repeats)
    /\ calls' = <<>>
    /\ UNCHANGED <<closes, finer, practice_repeats, experiment_repeats, nodes, participants, now,
                   clock_pc>>

\* Experiment.setup()
setup ==
    /\ IF networks_query("all", "all") = {}
       THEN networks' = Repeat(create_network("practice"), practice_repeats)
                        \o Repeat(create_network("experiment"), experiment_repeats)
       ELSE UNCHANGED networks
    /\ calls' = <<>>
    /\ UNCHANGED <<closes, finer, practice_repeats, experiment_repeats, nodes, participants, now,
                   clock_pc>>

-----------------------------------------------------------------------------
(* Experiment: admission.                                                  *)

\* Network.query.filter_by(full=False).order_by(Network.id).all()
networks_with_space ==
    IdsFrom({i \in DOMAIN networks : ~networks[i].full}, 1)

\* [node.network_id for node in Node.query...filter_by(participant_id=...)]
networks_participated_in(participant) ==
    {nodes[k].network_id : k \in {j \in DOMAIN nodes :
                                    nodes[j].participant_id = participant}}

\* Mutant: the networks the participant already joined are not left out.
legal_networks_with_space(participant) == networks_with_space

legal_networks(participant) ==
    LET space == networks_with_space
    IN  Filter(space,
               {i \in DOMAIN space :
                    space[i] \notin networks_participated_in(participant)},
               1)

legal_practice_networks(participant) ==
    LET legal == legal_networks(participant)
    IN  Filter(legal,
               {i \in DOMAIN legal : networks[legal[i]].role = "practice"},
               1)

\* Experiment.choose_network: random.choice(networks); `pick` is the draw.
choose_network(nets, participant, pick) == nets[pick]

\* Mutant: practice networks get no priority.
get_network_without_priority(participant, pick) ==
    LET legal == legal_networks(participant)
    IN  IF legal = <<>> THEN None
        ELSE choose_network(legal, participant, pick)

\* Mutant: None is returned as soon as no practice network is available.
get_network_practice_only(participant, pick) ==
    LET practice == legal_practice_networks(participant)
    IN  IF practice = <<>> THEN None ELSE practice[1]

\* Experiment.get_network_for_participant; None when nothing is available.
get_network_for_participant(participant, pick) ==
    LET legal == legal_networks(participant)
        practice == legal_practice_networks(participant)
    IN  IF legal = <<>> THEN None
        ELSE IF practice # <<>> THEN practice[1]
        ELSE choose_network(legal, participant, pick)

\* Experiment.create_node
create_node(participant, network) ==
    [participant_id |-> participant, network_id |-> network, failed |-> FALSE]

\* Mutant: a network is full when it holds exactly max_size nodes.
calculate_full_exactly(nets, all_nodes, network) ==
    [nets EXCEPT ![network].full =
        Cardinality({k \in DOMAIN all_nodes :
                        all_nodes[k].network_id = network}) = max_size]

\* Network.calculate_full(), run after a node joined `network`.
calculate_full(nets, all_nodes, network) ==
    [nets EXCEPT ![network].full =
        Cardinality({k \in DOMAIN all_nodes :
                        all_nodes[k].network_id = network}) >= max_size]

\* The random draws choose_network can make for this participant.
Picks(participant) ==
    IF legal_networks(participant) = <<>> THEN {1}
    ELSE 1 .. Len(legal_networks(participant))

\* One admission: get_network_for_participant, then create_node for the
\* network it returned (nothing is created when it returned None).
Admit(participant, pick) ==
    /\ participant \in DOMAIN participants
    /\ pick \in Picks(participant)
    /\ LET network == get_network_for_participant(participant, pick)
       IN  IF network = None
           THEN UNCHANGED <<nodes, networks>>
           ELSE /\ nodes' = Append(nodes, create_node(participant, network))
                /\ networks' = calculate_full(networks, nodes', network)
    /\ calls' = <<>>
    /\ UNCHANGED <<closes, finer, practice_repeats, experiment_repeats, participants, now,
                   clock_pc>>

\* An admission call by call: get_network_for_participant returns, and the
\* request holds the network until it calls create_node; other requests are
\* served in between.
GetNetwork(participant, pick) ==
    /\ participant \in DOMAIN participants
    /\ Len(admissions) < MaxRequests
    /\ pick \in Picks(participant)
    /\ LET network == get_network_for_participant(participant, pick)
       IN  IF network = None
           THEN UNCHANGED admissions
           ELSE admissions' = Append(admissions, [participant |-> participant,
                                                 network |-> network])
    /\ calls' = <<>>
    /\ UNCHANGED <<closes, jobs, run, practice_repeats, experiment_repeats,
                   networks, nodes, participants, now, clock_pc>>

\* create_node for the network request r was given.
CreateNode(r) ==
    /\ r \in DOMAIN admissions
    /\ nodes' = Append(nodes, create_node(admissions[r].participant,
                                          admissions[r].network))
    /\ networks' = calculate_full(networks, nodes', admissions[r].network)
    /\ admissions' = Filter(admissions, DOMAIN admissions \ {r}, 1)
    /\ calls' = <<>>
    /\ UNCHANGED <<closes, jobs, run, practice_repeats, experiment_repeats,
                   participants, now, clock_pc>>

-----------------------------------------------------------------------------
(* Experiment: failing a participant.                                      *)

\* Node.fail(): the node stays in the table, marked failed.
fail(node) == [node EXCEPT !.failed = TRUE]

\* Mutant: only the first node of the participant that is not failed yet is
\* failed (.first() for .all()).
fail_first_node(all_nodes, participant) ==
    LET participant_nodes ==
            {k \in DOMAIN all_nodes :
                /\ all_nodes[k].participant_id = participant
                /\ all_nodes[k].failed = FALSE}
    IN  [k \in DOMAIN all_nodes |->
            IF k \in participant_nodes /\ \A j \in participant_nodes : k <= j
            THEN fail(all_nodes[k])
            ELSE all_nodes[k]]

\* Mutant: the query is not restricted to the participant.
fail_every_node(all_nodes, participant) ==
    [k \in DOMAIN all_nodes |->
        IF all_nodes[k].failed = FALSE THEN fail(all_nodes[k])
        ELSE all_nodes[k]]

\* Experiment.fail_participant: fail every node of the participant that is
\* not failed yet.
fail_participant(all_nodes, participant) ==
    LET participant_nodes ==
            {k \in DOMAIN all_nodes :
                /\ all_nodes[k].participant_id = participant
                /\ all_nodes[k].failed = FALSE}
    IN  [k \in DOMAIN all_nodes |->
            IF k \in participant_nodes THEN fail(all_nodes[k])
            ELSE all_nodes[k]]

data_check_failed(all_nodes, participant) ==
    fail_participant(all_nodes, participant)

attention_check_failed(all_nodes, participant) ==
    fail_participant(all_nodes, participant)

assignment_abandoned(all_nodes, participant) ==
    fail_participant(all_nodes, participant)

assignment_returned(all_nodes, participant) ==
    fail_participant(all_nodes, participant)

assignment_reassigned(all_nodes, participant) ==
    fail_participant(all_nodes, participant)

-----------------------------------------------------------------------------
(* Experiment: recruitment.                                                *)

\* Recruiter.close_recruitment()
close_recruitment == <<"close_recruitment">>

\* How many of the requests issued are `request`, each of which the service
\* it is sent to receives.
received(issued, request) ==
    Cardinality({k \in DOMAIN issued : issued[k] = request})

\* Mutant: recruitment is closed as soon as some network is full.
recruit_until_one_full ==
    IF networks_query("all", "true") # {}
    THEN <<close_recruitment>>
    ELSE <<>>

\* Experiment.recruit(): the requests it makes.
recruit ==
    IF networks_query("all", "false") = {}
    THEN <<close_recruitment>>
    ELSE <<>>

-----------------------------------------------------------------------------
(* Participants and the notifications about their assignments.             *)

\* A participant is created on first contact, working.
new_participant(assignment_id) ==
    [status |-> "working", creation_time |-> now, end_time |-> NoTime,
     assignment_id |-> assignment_id, hit_id |-> HitOf(assignment_id)]

\* Earlier participants that hold the assignment and are still working.
Reassigned(assignment_id) ==
    {d \in DOMAIN participants :
        /\ participants[d].assignment_id = assignment_id
        /\ participants[d].status = "working"}

RECURSIVE ReassignAll(_, _)
ReassignAll(all_nodes, ds) ==
    IF ds = {} THEN all_nodes
    ELSE LET d == CHOOSE x \in ds : \A y \in ds : x <= y
         IN  ReassignAll(assignment_reassigned(all_nodes, d), ds \ {d})

\* A participant arrives with an assignment, a new one or the one of an
\* earlier participant that is still working, who is then reassigned.
CreateParticipant(assignment_id) ==
    /\ Len(participants) < MaxParticipants
    /\ \/ assignment_id = Len(participants) + 1
       \/ Reassigned(assignment_id) # {}
    /\ participants' = Append(participants, new_participant(assignment_id))
    /\ nodes' = ReassignAll(nodes, Reassigned(assignment_id))
    /\ calls' = <<>>
    /\ UNCHANGED <<closes, finer, practice_repeats, experiment_repeats, networks, now, clock_pc>>

\* The participant's row with a terminal (or submitted) status and end time.
ended(participant, status) ==
    [participants EXCEPT ![participant].status = status,
                         ![participant].end_time = now]

\* Notification AssignmentAbandoned.
AssignmentAbandoned(participant) ==
    /\ participant \in DOMAIN participants
    /\ participants[participant].status = "working"
    /\ participants' = ended(participant, "abandoned")
    /\ nodes' = assignment_abandoned(nodes, participant)
    /\ calls' = <<>>
    /\ UNCHANGED <<closes, finer, practice_repeats, experiment_repeats, networks, now, clock_pc>>

\* Notification AssignmentReturned.
AssignmentReturned(participant) ==
    /\ participant \in DOMAIN participants
    /\ participants[participant].status = "working"
    /\ participants' = ended(participant, "returned")
    /\ nodes' = assignment_returned(nodes, participant)
    /\ calls' = <<>>
    /\ UNCHANGED <<closes, finer, practice_repeats, experiment_repeats, networks, now, clock_pc>>

\* Notification AssignmentSubmitted.
AssignmentSubmitted(participant) ==
    /\ participant \in DOMAIN participants
    /\ participants[participant].status = "working"
    /\ participants' = ended(participant, "submitted")
    /\ calls' = <<>>
    /\ UNCHANGED <<closes, finer, practice_repeats, experiment_repeats, networks, nodes, now,
                   clock_pc>>

\* The checks on a submission: data_check, then attention_check; a
\* participant that passes both has completed and recruit() runs.
SubmissionChecked(participant, data_ok, attention_ok) ==
    /\ participant \in DOMAIN participants
    /\ participants[participant].status = "submitted"
    /\ IF ~data_ok
       THEN /\ participants' = [participants EXCEPT ![participant].status = "bad_data"]
            /\ nodes' = data_check_failed(nodes, participant)
            /\ calls' = <<>>
       ELSE IF ~attention_ok
       THEN /\ participants' = [participants EXCEPT ![participant].status = "rejected"]
            /\ nodes' = attention_check_failed(nodes, participant)
            /\ calls' = <<>>
       ELSE /\ participants' = [participants EXCEPT ![participant].status = "approved"]
            /\ nodes' = nodes
            /\ calls' = recruit
    /\ closes' = closes + received(calls', close_recruitment)
    /\ UNCHANGED <<finer, practice_repeats, experiment_repeats, networks, now, clock_pc>>

-----------------------------------------------------------------------------
(* The clock process (dallinger/heroku/clock.py).                          *)

\* What conn.get_assignment can answer for an assignment: a status, or an
\* exception (the request failed, or the assignment was never submitted).
Raises == "raises"
NoStatus == "None"
Results == {"Approved", "Rejected", "Submitted", "Unknown", Raises}

\* set_autorecruit(autorecruit): the PATCH of the Heroku config var.
set_autorecruit(autorecruit) ==
    <<"set_autorecruit", IF autorecruit THEN "true" ELSE "false">>

\* expire_hit(): the HIT of participant 1 is expired; there is nothing to
\* read the hit_id from when the table is empty, and the call raises.
expire_hit(ps) ==
    IF 1 \in DOMAIN ps THEN <<<<"expire_hit", ps[1].hit_id>>>> ELSE <<>>

\* send_notification(event_type, assignment_id): the POST to /notifications.
send_notification(event_type, assignment_id) ==
    <<"send_notification", event_type, assignment_id>>

\* Mutant: the status is stored as Mechanical Turk spells it.
lower_forgotten(status) == status

\* str.lower() on the statuses Mechanical Turk reports.
lower(status) ==
    CASE status = "Approved" -> "approved"
      [] status = "Rejected" -> "rejected"
      [] status = "Submitted" -> "submitted"
      [] OTHER -> "unknown"

\* p_time = (current_time - p.creation_time).total_seconds()
p_time(p) == now - p.creation_time

\* The try/except around conn.get_assignment.
assignment_status(result) ==
    IF result = Raises THEN NoStatus ELSE result

\* Mutant: a participant is overdue from the bound on.
overdue_at_bound(p) == p_time(p) >= (duration + grace)

\* if p_time > (duration + 120)
overdue(p) == p_time(p) > (duration + grace)

\* Mutant: the shutdown does not expire the HIT.
missed_notification_without_expire(acc, i, results) ==
    LET p == acc.participants[i]
        status == assignment_status(results[i])
    IN  IF ~overdue(p) THEN acc
        ELSE IF status \in {"Approved", "Rejected"}
        THEN [acc EXCEPT !.participants[i].status = lower(status)]
        ELSE IF status = "Submitted"
        THEN [acc EXCEPT !.calls =
                Append(@, send_notification("AssignmentSubmitted", p.assignment_id))]
        ELSE [acc EXCEPT !.calls =
                Append(@ \o <<set_autorecruit(FALSE)>>,
                       send_notification("NotificationMissing", p.assignment_id))]

\* Mutant: a Submitted assignment is also written to the table.
missed_notification_writes_submitted(acc, i, results) ==
    LET p == acc.participants[i]
        status == assignment_status(results[i])
    IN  IF ~overdue(p) THEN acc
        ELSE IF status \in {"Approved", "Rejected"}
        THEN [acc EXCEPT !.participants[i].status = lower(status)]
        ELSE IF status = "Submitted"
        THEN [acc EXCEPT !.participants[i].status = lower(status),
                         !.calls =
                Append(@, send_notification("AssignmentSubmitted", p.assignment_id))]
        ELSE [acc EXCEPT !.calls =
                Append(@ \o <<set_autorecruit(FALSE)>> \o expire_hit(acc.participants),
                       send_notification("NotificationMissing", p.assignment_id))]

\* Mutant: the shutdown also writes the participant off as abandoned.
missed_notification_writes_abandoned(acc, i, results) ==
    LET p == acc.participants[i]
        status == assignment_status(results[i])
    IN  IF ~overdue(p) THEN acc
        ELSE IF status \in {"Approved", "Rejected"}
        THEN [acc EXCEPT !.participants[i].status = lower(status)]
        ELSE IF status = "Submitted"
        THEN [acc EXCEPT !.calls =
                Append(@, send_notification("AssignmentSubmitted", p.assignment_id))]
        ELSE [acc EXCEPT !.participants[i].status = "abandoned",
                         !.calls =
                Append(@ \o <<set_autorecruit(FALSE)>> \o expire_hit(acc.participants),
                       send_notification("NotificationMissing", p.assignment_id))]

\* The body of the loop of check_for_missed_notifications for participant i,
\* given the table and the requests made so far; results[i] is the answer
\* to the query about participant i.
missed_notification(acc, i, results) ==
    LET p == acc.participants[i]
        status == assignment_status(results[i])
    IN  IF ~overdue(p) THEN acc
        ELSE IF status \in {"Approved", "Rejected"}
        THEN [acc EXCEPT !.participants[i].status = lower(status)]
        ELSE IF status = "Submitted"
        THEN [acc EXCEPT !.calls =
                Append(@, send_notification("AssignmentSubmitted", p.assignment_id))]
        ELSE [acc EXCEPT !.calls =
                Append(@ \o <<set_autorecruit(FALSE)>> \o expire_hit(acc.participants),
                       send_notification("NotificationMissing", p.assignment_id))]

RECURSIVE missed_notifications_loop(_, _, _, _)
\* for p in participants, over the rows that were working when queried.
missed_notifications_loop(acc, working, i, results) ==
    IF i > Len(acc.participants) THEN acc
    ELSE IF i \in working
    THEN missed_notifications_loop(missed_notification(acc, i, results),
                                   working, i + 1, results)
    ELSE missed_notifications_loop(acc, working, i + 1, results)

\* The participants check_for_missed_notifications asks Mechanical Turk about.
Queried ==
    {i \in DOMAIN participants :
        /\ participants[i].status = "working"
        /\ overdue(participants[i])}

\* check_for_missed_notifications(): the table and the requests it leaves.
check_for_missed_notifications(results) ==
    missed_notifications_loop(
        [participants |-> participants, calls |-> <<>>],
        {i \in DOMAIN participants : participants[i].status = "working"},
        1, results)

\* The ways participants[-threshold:] can come out of the sort by end_time:
\* the query has no ORDER BY, so rows with equal end_time come in any order.
last_participants(threshold) ==
    LET finished == {i \in DOMAIN participants :
                        participants[i].status # "working"}
        n == IF Cardinality(finished) < threshold
             THEN Cardinality(finished) ELSE threshold
    IN  {recent \in SUBSET finished :
            /\ Cardinality(recent) = n
            /\ \A r \in recent : \A o \in finished \ recent :
                   participants[o].end_time <= participants[r].end_time}

\* Mutant: any() for all().
check_for_bad_data_any(recent) ==
    IF \E i \in recent : participants[i].status = "bad_data"
    THEN <<set_autorecruit(FALSE)>> \o expire_hit(participants)
    ELSE <<>>

\* check_for_bad_data(): the requests it makes.
check_for_bad_data(recent) ==
    IF \A i \in recent : participants[i].status = "bad_data"
    THEN <<set_autorecruit(FALSE)>> \o expire_hit(participants)
    ELSE <<>>

\* check_database, first half; the scheduler starts a run only when the
\* previous one has returned.
CheckForMissedNotifications(results) ==
    /\ clock_pc = "idle"
    /\ clock_pc' = "check_for_bad_data"
    /\ LET done == check_for_missed_notifications(results)
       IN  /\ participants' = done.participants
           /\ calls' = done.calls
    /\ UNCHANGED <<closes, finer, practice_repeats, experiment_repeats, networks, nodes, now>>

\* check_database, second half.
CheckForBadData(recent, threshold) ==
    /\ clock_pc = "check_for_bad_data"
    /\ clock_pc' = "idle"
    /\ recent \in last_participants(threshold)
    /\ calls' = check_for_bad_data(recent)
    /\ UNCHANGED <<closes, finer, practice_repeats, experiment_repeats, networks, nodes,
                   participants, now>>

\* The job check_database, call by call: the web process can handle a request
\* between any two calls of a running instance.

\* APScheduler's max_instances, which the decorator of check_database leaves
\* at its default: the instances of a job that may run at the same time.
max_instances == 1

\* Mutant: the scheduler starts a run whatever is running.
may_start_unchecked == TRUE

\* The scheduler skips a run that is due while max_instances are running.
may_start == Len(jobs) < max_instances

\* Participant.query.filter_by(status="working").all()
working_participants ==
    IdsFrom({i \in DOMAIN participants : participants[i].status = "working"}, 1)

\* The interval of the job elapsed: an instance starts, and its first call,
\* check_for_missed_notifications, reads the working participants.
StartJob ==
    /\ Len(jobs) < MaxJobs
    /\ may_start
    /\ jobs' = Append(jobs, [pc |-> "check_for_missed_notifications",
                             working |-> working_participants])
    /\ calls' = <<>>
    /\ UNCHANGED <<closes, admissions, run, practice_repeats, experiment_repeats,
                   networks, nodes, participants, now, clock_pc>>

\* One round of `for p in participants` in instance j: the participant read
\* when the instance started, the table as it is now.
MissedNotificationStep(j, result) ==
    /\ j \in DOMAIN jobs
    /\ jobs[j].pc = "check_for_missed_notifications"
    /\ jobs[j].working # <<>>
    /\ LET i == Head(jobs[j].working)
           done == missed_notification(
                       [participants |-> participants, calls |-> <<>>],
                       i, [k \in {i} |-> result])
       IN  /\ participants' = done.participants
           /\ calls' = done.calls
    /\ jobs' = [jobs EXCEPT ![j].working = Tail(@)]
    /\ UNCHANGED <<closes, admissions, run, practice_repeats, experiment_repeats,
                   networks, nodes, now, clock_pc>>

\* check_for_missed_notifications returns and check_for_bad_data is called.
MissedNotificationsDone(j) ==
    /\ j \in DOMAIN jobs
    /\ jobs[j].pc = "check_for_missed_notifications"
    /\ jobs[j].working = <<>>
    /\ jobs' = [jobs EXCEPT ![j].pc = "check_for_bad_data"]
    /\ calls' = <<>>
    /\ UNCHANGED <<closes, admissions, run, practice_repeats, experiment_repeats,
                   networks, nodes, participants, now, clock_pc>>

\* check_for_bad_data in instance j, after which the instance is over.
BadDataStep(j, recent, threshold) ==
    /\ j \in DOMAIN jobs
    /\ jobs[j].pc = "check_for_bad_data"
    /\ recent \in last_participants(threshold)
    /\ calls' = check_for_bad_data(recent)
    /\ jobs' = Filter(jobs, DOMAIN jobs \ {j}, 1)
    /\ UNCHANGED <<closes, admissions, run, practice_repeats, experiment_repeats,
                   networks, nodes, participants, now, clock_pc>>

\* Time passes.
Tick ==
    /\ now + TickSeconds <= MaxTicks * TickSeconds
    /\ now' = now + TickSeconds
    /\ UNCHANGED <<closes, finer, practice_repeats, experiment_repeats, networks, nodes,
                   participants, clock_pc, calls>>

-----------------------------------------------------------------------------
(* Experiment.run and _finish_experiment.                                  *)

\* Before Experiment.run is called: no mode, nothing done, and no summary
\* of the deployed application that says it completed.
NotRun ==
    [pc |-> "idle", mode |-> "none", summary |-> [completed |-> FALSE],
     done |-> <<>>]

Range(f) == {f[x] : x \in DOMAIN f}

\* exp_config["mode"]
Modes == {"debug", "sandbox", "live"}

\* Strings are sequences of pieces; "{}" is the replacement field of
\* str.format.
field == "{}"

\* HerokuApp(self.app_id).url
heroku_app_url == <<"https://", "dlgr-app_id", ".herokuapp.com">>

RECURSIVE format(_, _)
\* template.format(arg): every replacement field takes the argument, a
\* template without a field is returned as it is.
format(template, arg) ==
    IF template = <<>> THEN <<>>
    ELSE (IF Head(template) = field THEN arg ELSE <<Head(template)>>)
         \o format(Tail(template), arg)

\* status_url = '/summary'.format(heroku_app.url)
status_url == format(<<"/summary">>, heroku_app_url)

\* The empty dict.
EmptyDict == [key \in {} |-> FALSE]

\* What requests.get and resp.json() raise.
RequestException == [raised |-> "requests.exceptions.RequestException"]

ValueError == [raised |-> "ValueError"]

\* The answers of the deployed application to GET <url>/summary: its
\* summary; before it completed also a body without the key, a body that
\* is no JSON, or no answer at all.
getRunStatus ==
    IF run.summary.completed THEN {[json |-> run.summary]}
    ELSE {[json |-> run.summary], [json |-> EmptyDict], ValueError, RequestException}

\* requests.get(url): a URL without a scheme raises MissingSchema, which is
\* a RequestException, before anything is sent; otherwise the answer.
requests_get(url, answer) ==
    IF url = <<>> \/ Head(url) \notin {"http://", "https://"}
    THEN RequestException
    ELSE answer

\* dict.get(key, default)
get(data, key, default) == IF key \in DOMAIN data THEN data[key] ELSE default

\* The status fetched from <url>/summary, as a template with a replacement
\* field gives it.
experiment_completed_at_url(answer) ==
    LET resp == requests_get(format(<<field, "/summary">>, heroku_app_url), answer)
        data == IF "raised" \in DOMAIN resp THEN EmptyDict ELSE resp.json
    IN  get(data, "completed", FALSE)

\* Experiment.experiment_completed; `answer` is what the application would
\* answer to the request.
experiment_completed(answer) ==
    LET resp == requests_get(status_url, answer)
        data == IF "raised" \in DOMAIN resp THEN EmptyDict ELSE resp.json
    IN  get(data, "completed", FALSE)

\* Experiment.run up to its call of _finish_experiment: debug runs the
\* experiment locally to its end, the other modes deploy it.
Run(mode) ==
    /\ run.pc = "idle"
    /\ run' = [run EXCEPT !.pc = "finish", !.mode = mode,
                          !.done = <<IF mode = "debug" THEN "debug"
                                                       ELSE "deploy">>]
    /\ UNCHANGED <<practice_repeats, experiment_repeats, networks, nodes,
                   participants, now, clock_pc, calls, closes, jobs, admissions>>

\* The deployed experiment is marked complete.
Completes ==
    /\ run.mode \in Modes \ {"debug"}
    /\ "end_experiment" \notin Range(run.done)
    /\ ~run.summary.completed
    /\ run' = [run EXCEPT !.summary = [completed |-> TRUE]]
    /\ UNCHANGED <<practice_repeats, experiment_repeats, networks, nodes,
                   participants, now, clock_pc, calls, closes, jobs, admissions>>

\* _finish_experiment: if self.exp_config.get('mode') != 'debug'
Finish ==
    /\ run.pc = "finish"
    /\ run' = [run EXCEPT !.pc = IF run.mode # "debug" THEN "poll"
                                                        ELSE "retrieve_data"]
    /\ UNCHANGED <<practice_repeats, experiment_repeats, networks, nodes,
                   participants, now, clock_pc, calls, closes, jobs, admissions>>

\* while self.experiment_completed() is False; when the loop is left,
\* self.end_experiment() follows at once.
Poll(answer) ==
    /\ run.pc = "poll"
    /\ answer \in getRunStatus
    /\ run' = IF experiment_completed(answer) = FALSE
              THEN [run EXCEPT !.pc = "sleep"]
              ELSE [run EXCEPT !.pc = "retrieve_data",
                               !.done = @ \o <<"completed", "end_experiment">>]
    /\ UNCHANGED <<practice_repeats, experiment_repeats, networks, nodes,
                   participants, now, clock_pc, calls, closes, jobs, admissions>>

\* time.sleep(30)
Sleep ==
    /\ run.pc = "sleep"
    /\ run' = [run EXCEPT !.pc = "poll"]
    /\ UNCHANGED <<practice_repeats, experiment_repeats, networks, nodes,
                   participants, now, clock_pc, calls, closes, jobs, admissions>>

\* return self.retrieve_data()
retrieve_data ==
    /\ run.pc = "retrieve_data"
    /\ run' = [run EXCEPT !.pc = "returned",
                          !.done = Append(@, "retrieve_data")]
    /\ UNCHANGED <<practice_repeats, experiment_repeats, networks, nodes,
                   participants, now, clock_pc, calls, closes, jobs, admissions>>

-----------------------------------------------------------------------------

Init ==
    /\ practice_repeats \in 0 .. MaxNetworks
    /\ experiment_repeats \in 0 .. MaxNetworks
    /\ practice_repeats + experiment_repeats <= MaxNetworks
    /\ networks = <<>>
    /\ nodes = <<>>
    /\ participants = <<>>
    /\ now = 0
    /\ clock_pc = "idle"
    /\ calls = <<>>
    /\ closes = 0
    /\ jobs = <<>>
    /\ admissions = <<>>
    /\ run = NotRun

Participants == 1 .. MaxParticipants

\* The draws choose_network is offered: at most one per network.
Draws == 1 .. MaxNetworks

\* The notifications about assignments given up are handled.
Departures ==
    \/ \E p \in Participants : AssignmentAbandoned(p)
    \/ \E p \in Participants : AssignmentReturned(p)

\* The notifications about assignments handed in are handled.
Submissions ==
    \/ \E p \in Participants : AssignmentSubmitted(p)
    \/ \E p \in Participants : \E data_ok, attention_ok \in BOOLEAN :
          SubmissionChecked(p, data_ok, attention_ok)

\* The notifications about the participants' assignments are handled.
Notifications == Departures \/ Submissions

\* The web process: the experiment's networks and admissions.
Experiment ==
    \/ setup
    \/ \E p \in Participants : \E pick \in Draws : Admit(p, pick)

\* The clock process.
Clock ==
    \/ \E results \in [Queried -> Results] :
          CheckForMissedNotifications(results)
    \/ \E recent \in SUBSET Participants : \E threshold \in Thresholds :
          CheckForBadData(recent, threshold)
    \/ Tick

Arrivals == \E a \in AssignmentIds : CreateParticipant(a)

Next == Arrivals \/ Notifications \/ Experiment \/ Clock

Spec == Init /\ [][Next]_vars

\* The experiment without its clock process.
NextExperiment == Arrivals \/ Notifications \/ Experiment

SpecExperiment == Init /\ [][NextExperiment]_vars

\* Admissions alone: participants arrive and ask for networks.
NextAdmission == Arrivals \/ Experiment

SpecAdmission == Init /\ [][NextAdmission]_vars

\* The clock process beside an experiment that has no networks, whose
\* participants hand their assignments in or leave them to the clock.
InitClock == Init /\ practice_repeats = 0 /\ experiment_repeats = 0

NextClock == Arrivals \/ Submissions \/ Clock

SpecClock == InitClock /\ [][NextClock]_vars

\* The clock process beside participants that each bring an assignment of
\* their own and end it in every way: what the check for bad data reads.
NextBadData ==
    \/ CreateParticipant(Len(participants) + 1)
    \/ Notifications
    \/ Clock

SpecBadData == InitClock /\ [][NextBadData]_vars

\* Admissions call by call: the web process serves requests concurrently.
Requests ==
    \/ \E p \in Participants : \E pick \in Draws : GetNetwork(p, pick)
    \/ \E r \in 1 .. MaxRequests : CreateNode(r)

NextRequests == Arrivals \/ setup \/ Requests

SpecRequests == Init /\ [][NextRequests]_vars

\* Everything that runs beside one network: the web process with its
\* admissions call by call and its notifications, and the clock process.  The
\* full flag of a network depends on the nodes of this network only.
InitControl == Init /\ practice_repeats = 0 /\ experiment_repeats = 1

NextControl == Arrivals \/ Notifications \/ setup \/ Requests \/ Clock

SpecControl == InitControl /\ [][NextControl]_vars

\* The process that called Experiment.run, statement by statement, beside
\* the web process of an experiment without networks.  The process keeps
\* running: a statement it has reached is executed.
FinishExperiment ==
    \/ Finish
    \/ \E answer \in {[json |-> [completed |-> c]] : c \in BOOLEAN}
                     \cup {[json |-> EmptyDict], ValueError, RequestException} :
           Poll(answer)
    \/ Sleep
    \/ retrieve_data

NextFinish ==
    \/ Arrivals
    \/ Notifications
    \/ \E mode \in Modes : Run(mode)
    \/ Completes
    \/ FinishExperiment

SpecFinish == InitClock /\ [][NextFinish]_vars /\ WF_vars(FinishExperiment)

\* The job check_database call by call, beside the web process handling
\* arrivals and notifications; an instance is over long before the overdue
\* bound elapses again.
Jobs ==
    \/ StartJob
    \/ \E j \in 1 .. MaxJobs : \E result \in Results :
          MissedNotificationStep(j, result)
    \/ \E j \in 1 .. MaxJobs : MissedNotificationsDone(j)
    \/ \E j \in 1 .. MaxJobs : \E recent \in SUBSET Participants :
          \E threshold \in Thresholds : BadDataStep(j, recent, threshold)

\* Time passes between two runs of the job.
IdleTick == jobs = <<>> /\ Tick

NextJobs == Arrivals \/ Notifications \/ Jobs \/ IdleTick

SpecJobs == InitClock /\ [][NextJobs]_vars

\* The job call by call beside participants who arrive once each and hand
\* their assignments in or leave them to the clock.
NextSweeps ==
    \/ CreateParticipant(Len(participants) + 1)
    \/ Submissions
    \/ Jobs
    \/ IdleTick

SpecSweeps == InitClock /\ [][NextSweeps]_vars

-----------------------------------------------------------------------------
(* Vocabulary of the properties, stated on the tables themselves.          *)

\* The nodes (ids) of a participant.
NodesOf(all_nodes, p) ==
    {k \in DOMAIN all_nodes : all_nodes[k].participant_id = p}

\* The networks that are not full and hold no node of participant p.
Eligible(p) ==
    {n \in DOMAIN networks :
        /\ ~networks[n].full
        /\ \A k \in DOMAIN nodes :
               ~(nodes[k].participant_id = p /\ nodes[k].network_id = n)}

EligiblePractice(p) == {n \in Eligible(p) : networks[n].role = "practice"}

Lowest(S) == CHOOSE x \in S : \A y \in S : x <= y

\* The network of the node a step added, None when it added none.
Joined ==
    IF Len(nodes') = Len(nodes) + 1 THEN nodes'[Len(nodes')].network_id
    ELSE None

-----------------------------------------------------------------------------
\* C1: over every sequence of admissions the network returned for a
\* participant holds no node of that participant, so no two nodes share the
\* same (participant, network) pair.
C1_NoDuplicateNode ==
    /\ \A j, k \in DOMAIN nodes :
           (j # k) =>
               \/ nodes[j].participant_id # nodes[k].participant_id
               \/ nodes[j].network_id # nodes[k].network_id
    /\ \A p \in DOMAIN participants : \A pick \in Picks(p) :
           \A k \in NodesOf(nodes, p) :
               nodes[k].network_id # get_network_for_participant(p, pick)

\* A participant with a node in a network that still has space was later
\* admitted to another network.
C1_Witness ==
    \E j, k \in DOMAIN nodes :
        /\ j < k
        /\ nodes[j].participant_id = nodes[k].participant_id
        /\ ~networks[nodes[j].network_id].full

\* C2: an admission joins the eligible practice network of lowest id when
\* one is eligible; it joins an experiment network only when no practice
\* network is eligible, and the network joined is always eligible.
C2_PracticeFirst ==
    [][\A p \in Participants : \A pick \in Draws :
          Admit(p, pick) =>
              /\ (EligiblePractice(p) # {}) => (Joined = Lowest(EligiblePractice(p)))
              /\ (Joined # None) => (Joined \in Eligible(p))
              /\ (Joined # None /\ networks[Joined].role = "experiment")
                     => (EligiblePractice(p) = {})
              /\ (Eligible(p) # {}) => (Joined # None)]_vars

\* A participant went through the practice network and then into the
\* experiment network, while the practice network still had space.
C2_Witness ==
    \E j, k \in DOMAIN nodes :
        /\ j < k
        /\ nodes[j].participant_id = nodes[k].participant_id
        /\ networks[nodes[j].network_id].role = "practice"
        /\ ~networks[nodes[j].network_id].full
        /\ networks[nodes[k].network_id].role = "experiment"

-----------------------------------------------------------------------------
(* Vocabulary of the properties of the clock process.                      *)

\* The working participants whose elapsed time exceeds duration + 120.
Overdue ==
    {i \in DOMAIN participants :
        /\ participants[i].status = "working"
        /\ now - participants[i].creation_time > duration + 120}

\* Among the overdue participants, those Mechanical Turk answered `answers`
\* about, and those of them that hold assignment a.
Answered(results, answers) == {i \in Overdue : results[i] \in answers}

AnsweredFor(results, answers, a) ==
    {i \in Answered(results, answers) : participants[i].assignment_id = a}

\* How often a request occurs among the requests of a handler.
Count(requests, request) ==
    Cardinality({k \in DOMAIN requests : requests[k] = request})

CountOf(requests, name) ==
    Cardinality({k \in DOMAIN requests : requests[k][1] = name})

\* The answers that are a definite status other than a submission.
Definite == {"Approved", "Rejected"}

\* Every answer that is no status Mechanical Turk reports for a submitted
\* assignment: another status, or no answer at all.
Unreachable == {"Unknown", Raises}

\* C3: a lookup that raises an error triggers nothing: recruitment is
\* disabled, a HIT expired and NotificationMissing sent only for the
\* overdue participants whose lookup answered with an unknown status, and
\* the participants whose lookup failed keep their status.
C3_FailedLookupDefers ==
    [][\A results \in [Overdue -> Results] :
          CheckForMissedNotifications(results) =>
              /\ \A i \in Answered(results, {Raises}) :
                     participants'[i] = participants[i]
              /\ CountOf(calls', "set_autorecruit")
                     = Cardinality(Answered(results, {"Unknown"}))
              /\ CountOf(calls', "expire_hit")
                     = Cardinality(Answered(results, {"Unknown"}))
              /\ \A a \in AssignmentIds :
                     Count(calls', <<"send_notification", "NotificationMissing", a>>)
                         = Cardinality(AnsweredFor(results, {"Unknown"}, a))]_vars

\* C4: one sweep sets an overdue working participant whose assignment is
\* Approved (Rejected) to approved (rejected) in the table, and neither
\* disables recruitment, nor expires a HIT, nor sends a notification on its
\* account.
C4_RepairsDefiniteStatus ==
    [][\A results \in [Overdue -> Results] :
          CheckForMissedNotifications(results) =>
              /\ \A i \in Answered(results, {"Approved"}) :
                     participants'[i] = [participants[i] EXCEPT !.status = "approved"]
              /\ \A i \in Answered(results, {"Rejected"}) :
                     participants'[i] = [participants[i] EXCEPT !.status = "rejected"]
              /\ (Answered(results, Definite) = Overdue) => (calls' = <<>>)
              /\ Len(calls') = 3 * Cardinality(Answered(results, Unreachable))
                               + Cardinality(Answered(results, {"Submitted"}))]_vars

\* The sweep found two overdue participants: it repaired one of them and
\* shut down for the other.
C4_Witness ==
    /\ clock_pc = "check_for_bad_data"
    /\ CountOf(calls, "set_autorecruit") = 1
    /\ \E i, k \in DOMAIN participants :
           /\ participants[i].status \in {"approved", "rejected"}
           /\ participants[i].end_time = NoTime
           /\ participants[k].status = "working"
           /\ now - participants[k].creation_time > duration + 120

\* C5: for every overdue working participant whose assignment status is
\* unreachable or unknown, the sweep disables recruitment, expires a HIT and
\* sends NotificationMissing for its assignment, once each and in this
\* order, and does so for no one else.
C5_ShutsDownOncePerDetection ==
    [][\A results \in [Overdue -> Results] :
          CheckForMissedNotifications(results) =>
              /\ CountOf(calls', "set_autorecruit")
                     = Cardinality(Answered(results, Unreachable))
              /\ Count(calls', <<"set_autorecruit", "false">>)
                     = Cardinality(Answered(results, Unreachable))
              /\ CountOf(calls', "expire_hit")
                     = Cardinality(Answered(results, Unreachable))
              /\ \A a \in AssignmentIds :
                     Count(calls', <<"send_notification", "NotificationMissing", a>>)
                         = Cardinality(AnsweredFor(results, Unreachable, a))
              /\ \A k \in DOMAIN calls' :
                     (calls'[k][1] = "send_notification" /\ calls'[k][2] = "NotificationMissing")
                         => /\ k >= 3
                            /\ calls'[k - 1][1] = "expire_hit"
                            /\ calls'[k - 2] = <<"set_autorecruit", "false">>
              /\ \A i \in Answered(results, Unreachable) :
                     participants'[i] = participants[i]]_vars

\* The sweep shut the experiment down twice: for a participant whose lookup
\* answered nothing usable, and for another one holding another assignment.
C5_Witness ==
    /\ clock_pc = "check_for_bad_data"
    /\ Len(calls) = 6
    /\ calls[3] = <<"send_notification", "NotificationMissing", 1>>
    /\ calls[6] = <<"send_notification", "NotificationMissing", 2>>

\* C6: for every overdue working participant whose assignment is Submitted
\* the sweep posts one AssignmentSubmitted notification for its assignment
\* and nothing else: the participant's row is not written, and recruitment
\* is disabled and a HIT expired only for the participants of C5.
C6_RedeliversSubmitted ==
    [][\A results \in [Overdue -> Results] :
          CheckForMissedNotifications(results) =>
              /\ \A a \in AssignmentIds :
                     Count(calls', <<"send_notification", "AssignmentSubmitted", a>>)
                         = Cardinality(AnsweredFor(results, {"Submitted"}, a))
              /\ \A i \in Answered(results, {"Submitted"}) :
                     participants'[i] = participants[i]
              /\ (Answered(results, {"Submitted"}) = Overdue) =>
                     /\ Len(calls') = Cardinality(Overdue)
                     /\ participants' = participants
              /\ CountOf(calls', "send_notification")
                     = Cardinality(Answered(results, Unreachable \cup {"Submitted"}))
              /\ CountOf(calls', "set_autorecruit") + CountOf(calls', "expire_hit")
                     = 2 * Cardinality(Answered(results, Unreachable))]_vars

\* The sweep redelivered the submission of one overdue participant, who is
\* still working, and did nothing else.
C6_Witness ==
    /\ clock_pc = "check_for_bad_data"
    /\ \E a \in AssignmentIds :
           calls = <<<<"send_notification", "AssignmentSubmitted", a>>>>
    /\ \E i \in DOMAIN participants :
           /\ participants[i].status = "working"
           /\ now - participants[i].creation_time > duration + 120

\* The participants that are not working, and the ways to take the N of
\* them with the latest end times.
Finished == {i \in DOMAIN participants : participants[i].status # "working"}

Latest(N) ==
    {S \in SUBSET Finished :
        /\ Cardinality(S) = N
        /\ \A i \in S : \A j \in Finished \ S :
               participants[j].end_time <= participants[i].end_time}

AllBadData(S) == \A i \in S : participants[i].status = "bad_data"

-----------------------------------------------------------------------------
\* The failed nodes (ids) of a table.
Failed(all_nodes) == {k \in DOMAIN all_nodes : all_nodes[k].failed}

\* C8: failing a participant twice in a row leaves exactly the nodes, and
\* the failed nodes, that failing it once leaves.
C8_FailIdempotent ==
    \A p \in DOMAIN participants :
        LET once == fail_participant(nodes, p)
            twice == fail_participant(once, p)
        IN  /\ Failed(twice) = Failed(once)
            /\ twice = once

\* A participant was failed while holding two nodes, and another
\* participant holds a node that is not failed.
C8_Witness ==
    \E p \in DOMAIN participants :
        /\ participants[p].status = "abandoned"
        /\ Cardinality(NodesOf(nodes, p)) >= 2
        /\ NodesOf(nodes, p) \subseteq Failed(nodes)
        /\ Failed(nodes) # DOMAIN nodes

\* What failing the participants of D does to the node table: every node of
\* theirs is failed, no node is removed, and no other node changes.
FailureEffect(D) ==
    /\ DOMAIN nodes' = DOMAIN nodes
    /\ \A k \in DOMAIN nodes :
           IF nodes[k].participant_id \in D
           THEN nodes'[k] = [nodes[k] EXCEPT !.failed = TRUE]
           ELSE nodes'[k] = nodes[k]

\* C9: each failure path (abandoned, returned, reassigned, failed data
\* check, failed attention check) fails every node of its participant,
\* deletes no node and leaves the nodes of the other participants as they
\* were.
C9_FailurePaths ==
    [][/\ \A p \in Participants :
             (\/ AssignmentAbandoned(p)
              \/ AssignmentReturned(p)
              \/ SubmissionChecked(p, FALSE, FALSE)
              \/ SubmissionChecked(p, FALSE, TRUE)
              \/ SubmissionChecked(p, TRUE, FALSE))
                 => FailureEffect({p})
       /\ \A a \in AssignmentIds :
             CreateParticipant(a) => FailureEffect(Reassigned(a))]_vars

\* A participant failed its data check and lost its two nodes, next to a
\* reassigned participant and to a live node in the same network.
C9_Witness ==
    \E p, q \in DOMAIN participants :
        /\ participants[p].status = "bad_data"
        /\ Cardinality(NodesOf(nodes, p)) >= 2
        /\ NodesOf(nodes, p) \subseteq Failed(nodes)
        /\ \E j \in NodesOf(nodes, p) : \E k \in NodesOf(nodes, q) :
               /\ nodes[j].network_id = nodes[k].network_id
               /\ ~nodes[k].failed

-----------------------------------------------------------------------------
\* Every network is full.
AllFull == \A n \in DOMAIN networks : networks[n].full

\* C11: in a run whose admissions filled every network the recruiter is
\* asked to close recruitment once, however many participants complete
\* after the last network became full: when the completion handled last
\* closed recruitment with every network full, the next step does not make
\* the recruiter receive close_recruitment again.
C11_ClosesOnce ==
    [][(networks # <<>> /\ AllFull /\ received(calls, close_recruitment) > 0)
          => closes' = closes]_vars

-----------------------------------------------------------------------------
\* The transitions of a participant's status that the state machine permits.
Permitted(from, to) ==
    \/ from = "working" /\ to \in {"submitted", "abandoned", "returned"}
    \/ from = "submitted" /\ to \in {"approved", "rejected"}
    \/ to = "bad_data"

\* C12: under every sequence of notifications and sweeps of the clock a
\* participant's status changes only from working to submitted, abandoned
\* or returned, from submitted to approved or rejected, or to bad_data; in
\* particular a status other than working and submitted never changes.
C12_PermittedTransitions ==
    [][\A i \in DOMAIN participants :
          \/ participants'[i].status = participants[i].status
          \/ Permitted(participants[i].status, participants'[i].status)]_vars

\* The statuses a participant does not leave.
Terminal == Statuses \ {"working", "submitted"}

\* C13: a notification handler and a sweep of the clock that act on the
\* same participant serialize: a round of the sweep does not write the row
\* of a participant that was working when the sweep read the table and is
\* not working any more, and no notification changes a terminal status.
C13_TransitionsSerialize ==
    [][/\ \A j \in DOMAIN jobs : \A result \in Results :
             MissedNotificationStep(j, result) =>
                 \A i \in DOMAIN participants :
                     (participants[i].status # "working")
                         => (participants'[i] = participants[i])
       /\ Notifications =>
             \A i \in DOMAIN participants :
                 (participants[i].status \in Terminal)
                     => (participants'[i] = participants[i])]_vars

-----------------------------------------------------------------------------
\* C14: two admission requests of one participant that are served at the
\* same time are never given the same network, and never create two nodes
\* of the participant in one network.
C14_AdmissionAtomic ==
    /\ \A r, q \in DOMAIN admissions :
           (r # q /\ admissions[r].participant = admissions[q].participant)
               => (admissions[r].network # admissions[q].network)
    /\ \A p \in DOMAIN participants : \A n \in DOMAIN networks :
           Cardinality({k \in NodesOf(nodes, p) : nodes[k].network_id = n}) <= 1

-----------------------------------------------------------------------------
\* The statuses a participant has only once its nodes were failed.
Cascaded == {"abandoned", "returned", "bad_data"}

\* C15: whatever the order of the admissions and the failure of a
\* participant, a participant whose failure cascade is over has no node
\* that is not failed: a node created after the failure is failed too.
C15_NoLiveNodeAfterFailure ==
    \A p \in DOMAIN participants :
        (participants[p].status \in Cascaded)
            => (NodesOf(nodes, p) \subseteq Failed(nodes))

-----------------------------------------------------------------------------
\* C16: no operation (admission, failure of a participant, recruit, sweep of
\* the clock) sets the full flag of a network back to false, nor removes
\* the network.
C16_FullNeverReverts ==
    [][\A n \in DOMAIN networks :
          networks[n].full =>
              /\ n \in DOMAIN networks'
              /\ networks'[n].full]_vars

\* A full network was joined once more by a request that had been given
\* it before it was full, one of its participants was failed, and recruit
\* has run since.
C16_Witness ==
    \E n \in DOMAIN networks :
        /\ networks[n].full
        /\ Cardinality({k \in DOMAIN nodes : nodes[k].network_id = n}) > max_size
        /\ \E k \in Failed(nodes) : nodes[k].network_id = n
        /\ closes > 0

-----------------------------------------------------------------------------
\* C17: get_network_for_participant returns None exactly when no network is
\* both not full and not yet joined by the participant, whatever the draw,
\* and a network otherwise; an admission that got None joins nothing and
\* leaves networks, nodes and participants as they were.
C17_NoneWhenNothingEligible ==
    /\ [](\A p \in DOMAIN participants : \A pick \in Picks(p) :
             /\ (get_network_for_participant(p, pick) = None) <=> (Eligible(p) = {})
             /\ (get_network_for_participant(p, pick) # None)
                    => (get_network_for_participant(p, pick) \in DOMAIN networks))
    /\ [][\A p \in Participants : \A pick \in Draws :
             (Admit(p, pick) /\ Eligible(p) = {}) =>
                 /\ Joined = None
                 /\ UNCHANGED <<networks, nodes, participants>>]_vars

\* A participant is refused while a network has space, because this
\* participant joined it already; another network is full.
C17_Witness ==
    /\ \E p \in DOMAIN participants :
           /\ Eligible(p) = {}
           /\ get_network_for_participant(p, 1) = None
    /\ \E n \in DOMAIN networks : networks[n].full
    /\ \E n \in DOMAIN networks : ~networks[n].full

-----------------------------------------------------------------------------
\* C18: check_database never runs beside an earlier instance of itself, and
\* an instance calls check_for_bad_data only when its
\* check_for_missed_notifications went through every participant it read.
C18_SingleFlight ==
    /\ Len(jobs) <= 1
    /\ \A j \in DOMAIN jobs :
           (jobs[j].pc = "check_for_bad_data") => (jobs[j].working = <<>>)

\* An instance that repaired the status of a participant is about to call
\* check_for_bad_data; the scheduler starts no other instance beside it.
C18_Witness ==
    /\ Len(jobs) = 1
    /\ jobs[1].pc = "check_for_bad_data"
    /\ ~ENABLED StartJob
    /\ \E i \in DOMAIN participants :
           /\ participants[i].status \in {"approved", "rejected"}
           /\ participants[i].end_time = NoTime

-----------------------------------------------------------------------------
Before(log, first, second) ==
    \A k \in DOMAIN log :
        (log[k] = second) => (\E h \in 1 .. k - 1 : log[h] = first)

Waiting == {"poll", "sleep"}

\* C19: unless the mode is debug, end_experiment comes only after
\* experiment_completed reported completion and retrieve_data only after
\* end_experiment; a fetch that failed or has no parsable body leaves the
\* loop waiting; in debug mode nothing is polled or torn down and the data
\* is retrieved at once; and when the application reports completed, the
\* loop that waits for it is left.
C19_FinishExperiment ==
    /\ [](/\ Before(run.done, "completed", "end_experiment")
          /\ (run.mode # "debug") => Before(run.done, "end_experiment", "retrieve_data")
          /\ (run.mode = "debug") =>
                 /\ run.pc \notin Waiting
                 /\ "end_experiment" \notin Range(run.done))
    /\ [][/\ (Poll(ValueError) \/ Poll(RequestException)) => (run'.pc = "sleep")
          /\ (run.mode = "debug" /\ Finish) => (run'.pc = "retrieve_data")]_vars
    /\ (run.summary.completed /\ run.pc \in Waiting) ~> (run.pc \notin Waiting)

-----------------------------------------------------------------------------
\* C20: the HIT a sweep expires before it sends NotificationMissing for an
\* assignment is the HIT of the overdue participant with this assignment
\* whose status could not be settled.
C20_ExpiresOwnHit ==
    [][\A results \in [Overdue -> Results] :
          CheckForMissedNotifications(results) =>
              \A k \in DOMAIN calls' :
                  (calls'[k][1] = "expire_hit") =>
                      /\ k + 1 \in DOMAIN calls'
                      /\ \E i \in Answered(results, Unreachable) :
                             /\ calls'[k + 1]
                                    = send_notification("NotificationMissing",
                                                        participants[i].assignment_id)
                             /\ calls'[k][2] = participants[i].hit_id]_vars

-----------------------------------------------------------------------------
\* The participants a sweep has to leave alone: every status but working,
\* and the working ones whose elapsed time is at most duration + 120.
Spared == DOMAIN participants \ Overdue

\* C21: a sweep of check_for_missed_notifications asks Mechanical Turk
\* nothing about a participant who is not working or whose elapsed time is
\* at most duration + 120 (whatever the answer would be, the sweep comes out
\* the same), it leaves the row of such a participant as it is, and it
\* sends a notification only for assignments of overdue working
\* participants, at most three requests for each of them.
C21_ActsOnOverdueWorkingOnly ==
    /\ [](\A results \in [DOMAIN participants -> Results] :
             check_for_missed_notifications(results)
                 = check_for_missed_notifications(
                       [i \in DOMAIN participants |->
                           IF i \in Overdue THEN results[i] ELSE "Unknown"]))
    /\ [][\A results \in [DOMAIN participants -> Results] :
             CheckForMissedNotifications(results) =>
                 /\ \A i \in Spared : participants'[i] = participants[i]
                 /\ \A k \in DOMAIN calls' :
                        (calls'[k][1] = "send_notification") =>
                            \E i \in Overdue :
                                participants[i].assignment_id = calls'[k][3]
                 /\ Len(calls') <= 3 * Cardinality(Overdue)]_vars

\* A sweep shut down for an overdue participant and passed over one whose
\* elapsed time is duration + 120 exactly and one who is not working.
C21_Witness ==
    /\ clock_pc = "check_for_bad_data"
    /\ CountOf(calls, "send_notification") = 1
    /\ \E i, k \in DOMAIN participants :
           /\ participants[i].status = "working"
           /\ now - participants[i].creation_time > duration + 120
           /\ participants[k].status = "working"
           /\ now - participants[k].creation_time = duration + 120

-----------------------------------------------------------------------------
\* C22: with N the threshold, check_for_bad_data makes no request when fewer
\* than N participants are not working; with no such participant at all it
\* neither disables recruitment nor expires a HIT.
C22_TooFewFinished ==
    [][\A N \in Thresholds : \A recent \in SUBSET Participants :
          (CheckForBadData(recent, N) /\ Cardinality(Finished) < N) =>
              /\ calls' = <<>>
              /\ (Finished = {}) =>
                     /\ CountOf(calls', "set_autorecruit") = 0
                     /\ CountOf(calls', "expire_hit") = 0]_vars

-----------------------------------------------------------------------------
\* C23: a sweep that shuts down for an overdue participant leaves the row of
\* this participant as it is, still working and still overdue; and a sweep
\* that runs next and gets no settled status for the participant either
\* disables recruitment, expires a HIT and sends NotificationMissing for the
\* assignment once more.  While no notification changes the status, the
\* participant stays overdue whatever else happens.
C23_RedetectedEverySweep ==
    [][/\ \A results \in [DOMAIN participants -> Results] :
             CheckForMissedNotifications(results) =>
                 \A i \in Answered(results, Unreachable) :
                     /\ participants'[i] = participants[i]
                     /\ i \in Overdue'
                     /\ LET again == (check_for_missed_notifications(results))'
                            missing == send_notification("NotificationMissing",
                                           participants[i].assignment_id)
                        IN  /\ again.participants[i].status = "working"
                            /\ \E k \in DOMAIN again.calls :
                                   /\ k + 2 \in DOMAIN again.calls
                                   /\ again.calls[k] = set_autorecruit(FALSE)
                                   /\ again.calls[k + 1][1] = "expire_hit"
                                   /\ again.calls[k + 2] = missing
                            /\ Count(again.calls, missing)
                                   >= Count(calls', missing)
       /\ \A i \in Overdue :
             (participants'[i].status = "working") => (i \in Overdue')]_vars

\* A sweep has shut down for two overdue participants; both are working
\* still, ready to be detected by the sweep that follows.
C23_Witness ==
    /\ clock_pc = "check_for_bad_data"
    /\ Cardinality(Overdue) = 2
    /\ \A i \in Overdue :
           Count(calls, send_notification("NotificationMissing",
                                          participants[i].assignment_id)) > 0
    /\ CountOf(calls, "set_autorecruit") = 2

-----------------------------------------------------------------------------
\* C24: when there is no network, setup creates practice_repeats networks
\* of role practice followed by experiment_repeats networks of role
\* experiment, none of them full; when there is a network it changes
\* nothing; so a setup that follows a setup finds the networks of the first
\* and leaves them, and nodes and participants are never touched.
C24_SetupOnce ==
    [][setup =>
          /\ IF networks = <<>>
             THEN /\ Len(networks') = practice_repeats + experiment_repeats
                  /\ \A n \in DOMAIN networks' :
                         /\ networks'[n].role = IF n <= practice_repeats
                                                THEN "practice" ELSE "experiment"
                         /\ ~networks'[n].full
             ELSE networks' = networks
          /\ (networks' = <<>>) => (practice_repeats + experiment_repeats = 0)
          /\ UNCHANGED <<nodes, participants, practice_repeats, experiment_repeats>>]_vars

\* setup created a practice and an experiment network, which participants
\* joined since; one network is full, and there are as many networks as
\* repeats still.
C24_Witness ==
    /\ Len(networks) = practice_repeats + experiment_repeats
    /\ Len(networks) = 2
    /\ networks[1].role = "practice"
    /\ networks[2].role = "experiment"
    /\ networks[1].full
    /\ \E k \in DOMAIN nodes : nodes[k].network_id = 2

=============================================================================
